---- MODULE Spec2Model ----
(***************************************************************************)
(* State-machine model of echotorch/nn/StackedESN.py: the constructor's    *)
(* per-layer parameter resolution and layer chaining, and the              *)
(* reset / finalize / forward lifecycle of a StackedESN instance.          *)
(* ESNCell and RRCell are not part of StackedESN.py; the readout (RRCell)  *)
(* follows the ReadoutUnit contract of the specification, section 4.4.     *)
(***************************************************************************)
EXTENDS Integers, Sequences, FiniteSets, TLC

\* Bounds of the model
MaxLayers == 2
MaxDim == 2
MaxAcc == 2

\* Longest per-layer list / largest stacked leading dimension that is tried:
\* one more than the deepest stack, so "longer than n_layers" always occurs.
MaxLen == MaxLayers + 1

VARIABLES
    pc,             \* "new" before __init__, "built" after it, "failed" if it raised
    args,           \* the arguments __init__ is called with
    n_layers,       \* self.n_layers
    esn_layers,     \* self.esn_layers, in append order
    n_features,     \* self.n_features
    training,       \* self.training (nn.Module flag)
    output,         \* self.output, the RRCell readout
    last,           \* the last call made on the object and how it ended
    last_lifecycle  \* the last reset()/finalize() that returned normally

vars == <<pc, args, n_layers, esn_layers, n_features, training, output, last,
          last_lifecycle>>

----------------------------------------------------------------------------
\* Python values a hyperparameter can take.  v holds the payload as a
\* sequence: <<x>> for a float, the entries for a list, and for a tensor the
\* index path by which it was sliced out of the tensor that was passed in.

NoneV == [kind |-> "None", ndim |-> 0, lead |-> 0, v |-> <<>>]

IndexError == [kind |-> "IndexError", ndim |-> 0, lead |-> 0, v |-> <<>>]

Float(x) == [kind |-> "float", ndim |-> 0, lead |-> 0, v |-> <<x>>]

List(s) == [kind |-> "list", ndim |-> 0, lead |-> Len(s), v |-> s]

Tensor(d, l) == [kind |-> "tensor", ndim |-> d, lead |-> l, v |-> <<>>]

\* p[n] for a list or a tensor, n counted from 0 as in Python
GetItem(p, n) ==
    IF n >= p.lead THEN IndexError
    ELSE IF p.kind = "list" THEN Float(p.v[n + 1])
    ELSE [kind |-> "tensor", ndim |-> p.ndim - 1, lead |-> 0, v |-> Append(p.v, n)]

----------------------------------------------------------------------------
\* StackedESN.__init__

\* layer_input_dim, n counted from 0
layer_input_dim_first_only(a, n) == a.input_dim

layer_input_dim(a, n) == IF n = 0 THEN a.input_dim ELSE a.hidden_dim[n]

\* self.n_features += layer_input_dim
feature_increment_hidden(a, n) == a.hidden_dim[n + 1]

feature_increment(a, n) == layer_input_dim(a, n)

RECURSIVE SumFeatures(_, _)
SumFeatures(a, k) == IF k = 0 THEN 0 ELSE SumFeatures(a, k - 1) + feature_increment(a, k - 1)

\* x[n] if type(x) is list else x
layer_scalar_first(p, n) == IF p.kind = "list" THEN GetItem(p, 0) ELSE p

layer_scalar(p, n) == IF p.kind = "list" THEN GetItem(p, n) ELSE p

layer_spectral_radius(a, n) == layer_scalar(a.spectral_radius, n)

layer_bias_scaling(a, n) == layer_scalar(a.bias_scaling, n)

layer_input_scaling(a, n) == layer_scalar(a.input_scaling, n)

layer_w(a, n) ==
    IF a.w.kind = "tensor" /\ a.w.ndim = 3 THEN GetItem(a.w, n)
    ELSE IF a.w.kind = "tensor" THEN a.w
    ELSE NoneV

layer_w_in(a, n) ==
    IF a.w_in.kind = "tensor" /\ a.w_in.ndim = 3 THEN GetItem(a.w_in, n)
    ELSE IF a.w_in.kind = "tensor" THEN a.w_in
    ELSE NoneV

layer_w_bias(a, n) ==
    IF a.w_bias.kind = "tensor" /\ a.w_bias.ndim = 2 THEN GetItem(a.w_bias, n)
    ELSE IF a.w_bias.kind = "tensor" THEN a.w_bias
    ELSE NoneV

\* The ESNCell appended for layer n: the arguments it is constructed with
ESNCell(a, n) ==
    [input_dim       |-> layer_input_dim(a, n),
     output_dim      |-> a.hidden_dim[n + 1],
     spectral_radius |-> layer_spectral_radius(a, n),
     bias_scaling    |-> layer_bias_scaling(a, n),
     input_scaling   |-> layer_input_scaling(a, n),
     w               |-> layer_w(a, n),
     w_in            |-> layer_w_in(a, n),
     w_bias          |-> layer_w_bias(a, n),
     feedbacks       |-> a.feedbacks,
     feedbacks_dim   |-> a.output_dim]

\* Iteration n of the loop raises: an index past the end of a list or tensor
LayerRaises(a, n) ==
    IndexError \in {layer_spectral_radius(a, n), layer_bias_scaling(a, n),
                    layer_input_scaling(a, n), layer_w(a, n), layer_w_in(a, n),
                    layer_w_bias(a, n)}

\* The readout's weight matrix: unset (None) until a finalize succeeds
NoWeights == [set |-> FALSE, rows |-> 0, cols |-> 0]

\* RRCell(input_dim, output_dim, ridge_param, feedbacks, with_bias, learning_algo)
RRCell(in_dim, a) ==
    [input_dim |-> in_dim, output_dim |-> a.output_dim, ridge_param |-> a.ridge_param,
     feedbacks |-> a.feedbacks, with_bias |-> a.with_bias,
     training |-> TRUE, n_acc |-> 0, w_out |-> NoWeights]

NoObject == [input_dim |-> 0, output_dim |-> 0, ridge_param |-> 0,
             feedbacks |-> FALSE, with_bias |-> FALSE,
             training |-> TRUE, n_acc |-> 0, w_out |-> NoWeights]

\* Record of a call: its name, the exception it ended with ("none" if it
\* returned), self.training when it was made, whether targets y were passed,
\* what forward fed every layer ("nothing" if it fed none), and the call made
\* before it
Call(op, err, pre) ==
    [op |-> op, err |-> err, pre |-> pre, y |-> FALSE, fed |-> "nothing",
     prev |-> last.op]

Construct ==
    /\ pc = "new"
    /\ LET nl == Len(args.hidden_dim) IN
        IF \E n \in 0 .. nl - 1 : LayerRaises(args, n)
        THEN /\ pc' = "failed"
             /\ last' = Call("__init__", "IndexError", TRUE)
             /\ UNCHANGED <<n_layers, esn_layers, n_features, training, output>>
        ELSE /\ pc' = "built"
             /\ n_layers' = nl
             /\ esn_layers' = [i \in 1 .. nl |-> ESNCell(args, i - 1)]
             /\ n_features' = SumFeatures(args, nl)
             /\ output' = RRCell(SumFeatures(args, nl), args)
             /\ training' = TRUE
             /\ last' = Call("__init__", "none", TRUE)
    /\ UNCHANGED <<args, last_lifecycle>>

----------------------------------------------------------------------------
\* Initial states: the object does not exist yet, the arguments are chosen.

RECURSIVE SeqsUpTo(_, _)
SeqsUpTo(S, k) ==
    IF k = 0 THEN {<<>>}
    ELSE LET shorter == SeqsUpTo(S, k - 1) IN
         shorter \cup {Append(s, x) : s \in {t \in shorter : Len(t) = k - 1}, x \in S}

Ramp(k) == [i \in 1 .. k |-> i]

\* A scalar hyperparameter: one float, or a list of 1..MaxLen floats
ScalarForms == {Float(9)} \cup {List(Ramp(k)) : k \in 1 .. MaxLen}

\* A matrix hyperparameter whose single form has d dimensions: None, the
\* single form, or a stack of 1..MaxLen of them
TensorForms(d) == {NoneV, Tensor(d, 2)} \cup {Tensor(d + 1, l) : l \in 1 .. MaxLen}

Unbuilt ==
    /\ pc = "new"
    /\ n_layers = 0
    /\ esn_layers = <<>>
    /\ n_features = 0
    /\ training = TRUE
    /\ output = NoObject
    /\ last = [op |-> "none", err |-> "none", pre |-> TRUE, y |-> FALSE,
               fed |-> "nothing", prev |-> "none"]
    /\ last_lifecycle = "none"

\* Default hyperparameters of the signature, every shape of the stack
Init ==
    /\ Unbuilt
    /\ args \in [input_dim : 1 .. MaxDim,
                 hidden_dim : SeqsUpTo(1 .. MaxDim, MaxLayers),
                 output_dim : 1 .. MaxDim,
                 spectral_radius : {Float(9)},
                 bias_scaling : {Float(0)},
                 input_scaling : {Float(1)},
                 w : {NoneV}, w_in : {NoneV}, w_bias : {NoneV},
                 ridge_param : 0 .. 1,
                 feedbacks : BOOLEAN,
                 with_bias : BOOLEAN]

\* Every form of the per-layer hyperparameters, stacks of 0..MaxLayers layers
InitParams ==
    /\ Unbuilt
    /\ args \in [input_dim : {1},
                 hidden_dim : {Ramp(k) : k \in 0 .. MaxLayers},
                 output_dim : {1},
                 spectral_radius : ScalarForms,
                 bias_scaling : ScalarForms,
                 input_scaling : ScalarForms,
                 w : TensorForms(2), w_in : TensorForms(2), w_bias : TensorForms(1),
                 ridge_param : {0},
                 feedbacks : {FALSE},
                 with_bias : {TRUE}]

----------------------------------------------------------------------------
\* The readout, RRCell (ReadoutUnit contract)

\* reset(): clears the statistics, discards the weights, back to training
RRCell_reset(o) == [o EXCEPT !.n_acc = 0, !.w_out = NoWeights, !.training = TRUE]

\* finalize() can solve the system once something was accumulated ...
RRCell_can_solve(o) == o.n_acc > 0

\* ... and fails on an empty system, or on a singular one when there is no
\* ridge term to stabilise it
RRCell_can_fail(o) == o.n_acc = 0 \/ o.ridge_param = 0

\* finalize() succeeded: weights of shape (output_dim, input_dim [+1 with
\* bias]), statistics cleared, inference phase
RRCell_finalized(o) ==
    [o EXCEPT !.w_out = [set |-> TRUE, rows |-> o.output_dim,
                         cols |-> o.input_dim + (IF o.with_bias THEN 1 ELSE 0)],
              !.n_acc = 0,
              !.training = FALSE]

\* Width of the hidden states of all layers concatenated in layer order
RECURSIVE ConcatWidth(_)
ConcatWidth(layers) ==
    IF layers = <<>> THEN 0
    ELSE layers[1].output_dim + ConcatWidth(Tail(layers))

\* A caller feeding the readout directly, self.output(states, y), with
\* states of the given width
output_accumulate ==
    /\ pc = "built"
    /\ \E width \in {ConcatWidth(esn_layers), n_features} :
        IF ~output.training
        THEN /\ last' = Call("output", "StateError", training)
             /\ UNCHANGED output
        ELSE IF width # output.input_dim
        THEN /\ last' = Call("output", "ShapeError", training)
             /\ UNCHANGED output
        ELSE /\ output.n_acc < MaxAcc
             /\ output' = [output EXCEPT !.n_acc = @ + 1]
             /\ last' = Call("output", "none", training)
    /\ UNCHANGED <<pc, args, n_layers, esn_layers, n_features, training, last_lifecycle>>

----------------------------------------------------------------------------
\* StackedESN public methods

\* Names bound on a StackedESN instance by __init__ (training by nn.Module)
Attributes == {"n_layers", "esn_layers", "n_features", "output", "training"}

\* nn.Module.train(mode) on the stack: sets the flag of the module and of its
\* registered child, the readout (esn_layers is a plain list)
Train(o, mode) == [o EXCEPT !.training = mode]

get_w_out == output.w_out

reset_toggle ==
    /\ pc = "built"
    /\ output' = Train(RRCell_reset(output), ~training)
    /\ training' = ~training
    /\ last' = Call("reset", "none", training)
    /\ last_lifecycle' = "reset"
    /\ UNCHANGED <<pc, args, n_layers, esn_layers, n_features>>

reset_keeps_mode ==
    /\ pc = "built"
    /\ output' = RRCell_reset(output)
    /\ training' = training
    /\ last' = Call("reset", "none", training)
    /\ last_lifecycle' = "reset"
    /\ UNCHANGED <<pc, args, n_layers, esn_layers, n_features>>

reset ==
    /\ pc = "built"
    /\ output' = Train(RRCell_reset(output), TRUE)
    /\ training' = TRUE
    /\ last' = Call("reset", "none", training)
    /\ last_lifecycle' = "reset"
    /\ UNCHANGED <<pc, args, n_layers, esn_layers, n_features>>

finalize_always_eval ==
    /\ pc = "built"
    /\ \/ /\ RRCell_can_solve(output)
          /\ output' = Train(RRCell_finalized(output), FALSE)
          /\ training' = FALSE
          /\ last' = Call("finalize", "none", training)
          /\ last_lifecycle' = "finalize"
       \/ /\ RRCell_can_fail(output)
          /\ output' = Train(output, FALSE)
          /\ training' = FALSE
          /\ last' = Call("finalize", "NumericalError", training)
          /\ UNCHANGED last_lifecycle
    /\ UNCHANGED <<pc, args, n_layers, esn_layers, n_features>>

finalize ==
    /\ pc = "built"
    /\ \/ /\ RRCell_can_solve(output)
          /\ output' = Train(RRCell_finalized(output), FALSE)
          /\ training' = FALSE
          /\ last' = Call("finalize", "none", training)
          /\ last_lifecycle' = "finalize"
       \/ /\ RRCell_can_fail(output)
          /\ last' = Call("finalize", "NumericalError", training)
          /\ UNCHANGED <<output, training, last_lifecycle>>
    /\ UNCHANGED <<pc, args, n_layers, esn_layers, n_features>>

\* The attributes forward reads before it reaches the readout, in the order
\* it reads them: self.feedbacks, then self.training where the first is
\* true, then self.esn_cell, and self.w_out on the feedback/eval path
ForwardReads(fb, tr) ==
    <<"feedbacks">> \o (IF fb THEN <<"training">> ELSE <<>>)
        \o <<"esn_cell">> \o (IF fb /\ ~tr THEN <<"w_out">> ELSE <<>>)

\* What each layer is fed on the path the two flags select
ForwardPath(fb, tr) ==
    IF fb /\ tr THEN "u,y" ELSE IF fb /\ ~tr THEN "u,w_out" ELSE "u"

forward ==
    /\ pc = "built"
    /\ \E y_given \in BOOLEAN :
        LET reads == ForwardReads(args.feedbacks, training) IN
        IF \E k \in 1 .. Len(reads) : reads[k] \notin Attributes
        THEN /\ last' = [Call("forward", "AttributeError", training) EXCEPT !.y = y_given]
             /\ UNCHANGED output
        ELSE /\ last' = [Call("forward", "none", training) EXCEPT
                            !.y = y_given,
                            !.fed = ForwardPath(args.feedbacks, training)]
             /\ UNCHANGED output
    /\ UNCHANGED <<pc, args, n_layers, esn_layers, n_features, training, last_lifecycle>>

Next == Construct \/ reset \/ finalize \/ forward \/ output_accumulate

Spec == Init /\ [][Next]_vars

NextParams == Construct

SpecParams == InitParams /\ [][NextParams]_vars

----------------------------------------------------------------------------
\* Properties

\* s[1] + ... + s[k]
RECURSIVE SumPrefix(_, _)
SumPrefix(s, k) == IF k = 0 THEN 0 ELSE SumPrefix(s, k - 1) + s[k]

\* C1: a stack built from n_layers >= 1 hidden widths has exactly n_layers
\* cells in the order of hidden_dim; cell 0 takes input_dim inputs and every
\* later cell takes as many inputs as the cell before it has hidden units.
C1_LayerChaining ==
    (pc = "built" /\ Len(args.hidden_dim) >= 1) =>
        /\ n_layers = Len(args.hidden_dim)
        /\ Len(esn_layers) = n_layers
        /\ esn_layers[1].input_dim = args.input_dim
        /\ \A i \in 1 .. n_layers : esn_layers[i].output_dim = args.hidden_dim[i]
        /\ \A i \in 2 .. n_layers :
            /\ esn_layers[i].input_dim = args.hidden_dim[i - 1]
            /\ esn_layers[i].input_dim = esn_layers[i - 1].output_dim

\* A two-layer stack whose second cell's input width differs from input_dim
C1_Witness ==
    /\ pc = "built"
    /\ n_layers = 2
    /\ esn_layers[2].input_dim # args.input_dim

\* The slice a stacked tensor yields for the cell at position i (1-based)
SliceAt(p, i) == [kind |-> "tensor", ndim |-> p.ndim - 1, lead |-> 0, v |-> <<i - 1>>]

ListLengthMismatch ==
    \E f \in {"spectral_radius", "bias_scaling", "input_scaling"} :
        args[f].kind = "list" /\ args[f].lead # Len(args.hidden_dim)

\* C3, as stated: once __init__ has run on arguments for at least one layer
\* with a list whose length differs from n_layers, it has raised (the class
\* of the error is left open).
C3_AsClaimed ==
    (pc # "new" /\ Len(args.hidden_dim) >= 1 /\ ListLengthMismatch) => pc = "failed"

\* C4, as stated: forward(u, y) made after a successful finalize() and before
\* the next reset() raises StateError, forward(u, y) made after reset()
\* returns normally, and after reset() get_w_out() holds no weights.
C4_AsClaimed ==
    /\ (last.op = "forward" /\ last.y /\ last_lifecycle = "finalize")
            => last.err = "StateError"
    /\ (last.op = "forward" /\ last.y /\ last_lifecycle = "reset")
            => last.err = "none"
    /\ last.op = "reset" => ~get_w_out.set

\* C5: the stack is in TRAIN (training = TRUE) after construction and after
\* reset(), in INFERENCE (training = FALSE) exactly when the last lifecycle
\* call that returned normally was finalize(), and forward() leaves the
\* phase as it found it.
C5_Phase ==
    pc = "built" =>
        /\ training = (last_lifecycle # "finalize")
        /\ last.op = "__init__" => training
        /\ last.op = "forward" => training = last.pre

\* forward() called in INFERENCE, right after a finalize() that succeeded
C5_Witness ==
    /\ last.op = "forward"
    /\ last.prev = "finalize"
    /\ last_lifecycle = "finalize"
    /\ ~training

\* C6: a reset() that directly follows a reset() changes nothing: phase,
\* readout statistics and weights, layers and feature width stay as the
\* first reset() left them.
C6_ResetIdempotent ==
    [][(last.op = "reset" /\ last'.op = "reset") =>
            /\ training' = training
            /\ output' = output
            /\ esn_layers' = esn_layers
            /\ n_features' = n_features
            /\ n_layers' = n_layers]_vars

\* Two reset() calls in a row
C6_Witness ==
    /\ last.op = "reset"
    /\ last.prev = "reset"
    /\ training
    /\ output.n_acc = 0
    /\ ~get_w_out.set

\* C7, as stated: the concatenated hidden states of a built stack are as wide
\* as the input the readout was sized for.
C7_AsClaimed ==
    (pc = "built" /\ n_layers >= 1) => ConcatWidth(esn_layers) = output.input_dim

\* C8, as stated: forward() feeds every layer what the pair (feedbacks,
\* training) selects and hands the concatenated states to the readout.
C8_AsClaimed ==
    last.op = "forward" =>
        /\ last.err = "none"
        /\ last.fed = ForwardPath(args.feedbacks, last.pre)

\* C9: the readout's input width is the sum of the layers' input widths,
\* input_dim + hidden_dim[0] + ... + hidden_dim[n_layers-2]; the last hidden
\* width is not part of it.
C9_FeatureWidth ==
    (pc = "built" /\ Len(args.hidden_dim) >= 1) =>
        /\ n_features = args.input_dim + SumPrefix(args.hidden_dim, n_layers - 1)
        /\ output.input_dim = n_features

\* A two-layer stack whose last hidden width differs from its input width
C9_Witness ==
    /\ pc = "built"
    /\ n_layers = 2
    /\ args.hidden_dim[2] # args.input_dim
    /\ n_features = args.input_dim + args.hidden_dim[1]

\* C10: a finalize() that fails fails with the readout's error and leaves the
\* phase it found, so the stack is never in INFERENCE without weights.
C10_FinalizeFailure ==
    /\ (last.op = "finalize" /\ last.err # "none") =>
            /\ last.err = "NumericalError"
            /\ training = last.pre
    /\ (pc = "built" /\ ~training) => get_w_out.set

\* finalize() failed on a stack in TRAIN
C10_Witness ==
    /\ last.op = "finalize"
    /\ last.err = "NumericalError"
    /\ last.pre
    /\ training

====
